---- MODULE Spec2Model ----
(***************************************************************************)
(* The line-building environment MOTNDP (src/motndp/motndp.py) as a state  *)
(* machine: one instance, driven by reset and step calls.                  *)
(*                                                                         *)
(* Grid cells are pairs <<x, y>>; an action a in 0..7 is entry a + 1 of    *)
(* _action_to_direction and of action_mask (TLA+ sequences start at 1).    *)
(* Rewards are exact fractions [num, den] (numpy divides two floats).      *)
(* The City collaborator (motndp/city.py) is modelled from spec.md: its    *)
(* grid sizes, its coordinate-to-index map, its per-group OD matrices      *)
(* (flattened to vectors over the OD pairs) and its satisfied_od_mask      *)
(* query, whose answer is any 0/1 vector over the OD pairs.                *)
(***************************************************************************)
EXTENDS Integers, Sequences, FiniteSets, TLC

\* ---------------------------------------------------------------- bounds
\* step is not called any more once stations_placed has reached MaxPlaced
MaxPlaced == 3
\* nr_stations is drawn from 1..MaxNrStations
MaxNrStations == 3

\* ------------------------------------------------------------- the city
\* per-group OD demand, flattened over the OD pairs (non-negative, total > 0)
GroupA == <<4, 6>>
GroupB == <<3, 0>>

\* the grids the environment is built on: a single cell, a corridor and a square
Grids == {<<1, 1>>, <<1, 3>>, <<2, 2>>}

\* city.group_od_mx: missing/empty, one group, two groups
GroupConfigs == {<< >>, <<GroupA>>, <<GroupA, GroupB>>}

Cities ==
  {[grid_x_size |-> g[1], grid_y_size |-> g[2], group_od_mx |-> m] :
     g \in Grids, m \in GroupConfigs}

VARIABLES
  city,                    \* self.city (read-only)
  nr_stations,             \* self.nr_stations
  stations_placed,         \* self.stations_placed
  covered_cells_vid,       \* self.covered_cells_vid
  covered_cells_gid,       \* self.covered_cells_gid
  covered_segments,        \* self.covered_segments
  action_mask,             \* self.action_mask
  _agent_location,         \* self._agent_location      (<< >> while unset)
  _agent_location_vid,     \* self._agent_location_vid  (<< >> while unset)
  _agent_location_vector,  \* self._agent_location_vector (<< >> while unset)
  op,                      \* the last call: "init", "reset" or "step"
  exc,                     \* how it ended: "none" (returned) or the exception
  action,                  \* the last step's action (-1 when the call was no step)
  loc_arg,                 \* the last reset's loc argument (NoLoc when the call was no reset)
  sat_od_mask,             \* the city's answer behind the returned reward (<< >> if none)
  reward,                  \* the last step's returned reward (<< >> if nothing returned)
  terminated,              \* the last step's returned terminated flag
  truncated,               \* the last step's returned truncated flag
  episode_return,          \* the driver's per-group sum of the episode's rewards
  credited,                \* OD pairs some credited segment of the episode satisfied
  overlap,                 \* some OD pair was satisfied by two credited segments
  legal                    \* every action of the episode was one its mask allowed

cityVars == <<city, nr_stations>>
episodeVars ==
  <<stations_placed, covered_cells_vid, covered_cells_gid, covered_segments,
    action_mask, _agent_location, _agent_location_vid, _agent_location_vector>>
callVars == <<op, exc, action, loc_arg, sat_od_mask, reward, terminated, truncated>>
driverVars == <<episode_return, credited, overlap, legal>>
vars == <<cityVars, episodeVars, callVars, driverVars>>

\* ------------------------------------------------------------- helpers
Range(s) == {s[i] : i \in DOMAIN s}

Unset == << >>

\* reset's loc argument: None, a pair (x, y) or a numpy array [x, y]
NoLoc == [kind |-> "none", at |-> << >>]
LocTuple(l) == [kind |-> "tuple", at |-> l]
LocArray(l) == [kind |-> "array", at |-> l]

Actions == 0..7

\* self._action_to_direction
_action_to_direction ==
  << <<-1, 0>>, <<-1, 1>>, <<0, 1>>, <<1, 1>>,
     <<1, 0>>, <<1, -1>>, <<0, -1>>, <<-1, -1>> >>

\* self.observation_space.n = city.grid_size
grid_size == city.grid_x_size * city.grid_y_size

\* city.grid_to_vector on one coordinate: (0,0) -> 0, (0,1) -> 1, ...
grid_to_vector(loc) == loc[1] * city.grid_y_size + loc[2]

\* np.zeros(n)
np_zeros(n) == [k \in 1..n |-> 0]

\* v[idx] = 1 on a numpy vector of length Len(v): a negative idx counts from the end
SetItemOne(v, idx) ==
  [k \in 1..Len(v) |-> IF k = (IF idx >= 0 THEN idx + 1 ELSE Len(v) + idx + 1)
                        THEN 1 ELSE v[k]]

\* whether v[idx] raises IndexError
IndexOutOfRange(n, idx) == idx >= n \/ idx < -n

\* ------------------------------------------------------------- rewards
Frac(n, d) == [num |-> n, den |-> d]
Zero == Frac(0, 1)

RECURSIVE SumSeq(_)
SumSeq(s) == IF s = << >> THEN 0 ELSE s[1] + SumSeq(Tail(s))

\* (g_od * sat_od_mask).sum()
MaskedSum(g_od, mask) == SumSeq([k \in 1..Len(g_od) |-> g_od[k] * mask[k]])

\* the answers satisfied_od_mask may give: every 0/1 vector over the OD pairs
OdMasks == IF city.group_od_mx = << >> THEN {<< >>}
           ELSE [1..Len(city.group_od_mx[1]) -> {0, 1}]

\* a variant that tests membership after the segment was appended
_calculate_reward_after_append(segment, segments, group_od_mx, mask, use_pct) ==
  [i \in 1..Len(group_od_mx) |-> Zero]

\* a variant that returns the un-normalised satisfied demand
_calculate_reward_no_pct(segment, segments, group_od_mx, mask, use_pct) ==
  IF segment \in Range(segments)
  THEN [i \in 1..Len(group_od_mx) |-> Zero]
  ELSE [i \in 1..Len(group_od_mx) |-> Frac(MaskedSum(group_od_mx[i], mask), 1)]

\* a variant without the covered-segment lookup
_calculate_reward_no_lookup(segment, segments, group_od_mx, mask, use_pct) ==
  [i \in 1..Len(group_od_mx) |->
     Frac(MaskedSum(group_od_mx[i], mask), SumSeq(group_od_mx[i]))]

\* _calculate_reward past its assertion: segments is self.covered_segments,
\* mask the answer of city.satisfied_od_mask(segment)
_calculate_reward(segment, segments, group_od_mx, mask, use_pct) ==
  IF segment \in Range(segments)
  THEN [i \in 1..Len(group_od_mx) |-> Zero]
  ELSE [i \in 1..Len(group_od_mx) |->
          IF use_pct
          THEN Frac(MaskedSum(group_od_mx[i], mask), SumSeq(group_od_mx[i]))
          ELSE Frac(MaskedSum(group_od_mx[i], mask), 1)]

\* ---------------------------------------------------------- action mask
\* a variant whose upper bounds are off by one
_update_action_mask_inclusive(location, cells_vid) ==
  [d \in 1..8 |->
     LET p == <<location[1] + _action_to_direction[d][1],
                location[2] + _action_to_direction[d][2]>>
     IN IF /\ p[1] >= 0 /\ p[2] >= 0
           /\ p[1] <= city.grid_x_size
           /\ p[2] <= city.grid_y_size
           /\ grid_to_vector(p) \notin Range(cells_vid)
        THEN 1 ELSE 0]

\* a variant whose lower bounds are strict
_update_action_mask_positive(location, cells_vid) ==
  [d \in 1..8 |->
     LET p == <<location[1] + _action_to_direction[d][1],
                location[2] + _action_to_direction[d][2]>>
     IN IF /\ p[1] > 0 /\ p[2] > 0
           /\ p[1] < city.grid_x_size
           /\ p[2] < city.grid_y_size
           /\ grid_to_vector(p) \notin Range(cells_vid)
        THEN 1 ELSE 0]

\* a variant that does not mask out the visited cells
_update_action_mask_no_visited(location, cells_vid) ==
  [d \in 1..8 |->
     LET p == <<location[1] + _action_to_direction[d][1],
                location[2] + _action_to_direction[d][2]>>
     IN IF /\ p[1] >= 0 /\ p[2] >= 0
           /\ p[1] < city.grid_x_size
           /\ p[2] < city.grid_y_size
        THEN 1 ELSE 0]

\* the value _update_action_mask assigns to self.action_mask
_update_action_mask(location, cells_vid) ==
  [d \in 1..8 |->
     LET p == <<location[1] + _action_to_direction[d][1],
                location[2] + _action_to_direction[d][2]>>
     IN IF /\ p[1] >= 0 /\ p[2] >= 0
           /\ p[1] < city.grid_x_size
           /\ p[2] < city.grid_y_size
           /\ grid_to_vector(p) \notin Range(cells_vid)
        THEN 1 ELSE 0]

\* ---------------------------------------------------------- termination
\* a variant that tests the budget with equality only
Terminated_eq(placed, nr, mask) == placed = nr \/ SumSeq(mask) = 0

\* a variant that ignores the stranded agent
Terminated_budget_only(placed, nr, mask) == placed >= nr

\* step's terminated flag
Terminated(placed, nr, mask) == placed >= nr \/ SumSeq(mask) = 0

\* ---------------------------------------------------------------- Init
Init ==
  /\ city \in Cities
  /\ nr_stations \in 1..MaxNrStations
  /\ stations_placed = 0
  /\ covered_cells_vid = << >>
  /\ covered_cells_gid = << >>
  /\ covered_segments = << >>
  /\ action_mask = [d \in 1..8 |-> 1]
  /\ _agent_location = Unset
  /\ _agent_location_vid = Unset
  /\ _agent_location_vector = Unset
  /\ op = "init"
  /\ exc = "none"
  /\ action = -1
  /\ loc_arg = NoLoc
  /\ sat_od_mask = << >>
  /\ reward = << >>
  /\ terminated = FALSE
  /\ truncated = FALSE
  /\ episode_return = << >>
  /\ credited = {}
  /\ overlap = FALSE
  /\ legal = TRUE

\* a call that raised: nothing is returned
NoReturn(name, error) ==
  /\ op' = name
  /\ exc' = error
  /\ sat_od_mask' = << >>
  /\ reward' = << >>
  /\ terminated' = FALSE
  /\ truncated' = FALSE

\* ------------------------------------------------------------- driver
\* exact sum of two fractions
AddFrac(a, b) ==
  IF b.num = 0 THEN a
  ELSE IF a.num = 0 THEN b
  ELSE IF a.den = b.den THEN Frac(a.num + b.num, a.den)
  ELSE Frac(a.num * b.den + b.num * a.den, a.den * b.den)

\* the OD pairs a mask marks satisfied
Satisfied(mask) == {k \in DOMAIN mask : mask[k] = 1}

\* the driver starts a new episode
DriverReset ==
  /\ episode_return' = [i \in 1..Len(city.group_od_mx) |-> Zero]
  /\ credited' = {}
  /\ overlap' = FALSE
  /\ legal' = TRUE

\* the driver adds a returned reward to the episode's return
DriverCollect(rw, asked, mask) ==
  /\ episode_return' = [i \in 1..Len(rw) |-> AddFrac(episode_return[i], rw[i])]
  /\ credited' = IF asked THEN credited \cup Satisfied(mask) ELSE credited
  /\ overlap' = (overlap \/ (asked /\ credited \cap Satisfied(mask) # {}))

\* --------------------------------------------------------------- reset
\* _update_agent_location: line 102 raises IndexError when the index is
\* outside the one-hot vector, which line 101 has zeroed by then
_update_agent_location(new_location) ==
  LET vid == grid_to_vector(new_location) IN
  /\ _agent_location' = new_location
  /\ _agent_location_vid' = vid
  /\ _agent_location_vector' =
       IF IndexOutOfRange(grid_size, vid) THEN np_zeros(grid_size)
       ELSE SetItemOne(np_zeros(grid_size), vid)

LocationRaises(new_location) ==
  IndexOutOfRange(grid_size, grid_to_vector(new_location))

\* a variant of reset that keeps the previous episode's segments
ResetEpisode_keeps_segments(loc) ==
  /\ stations_placed' = 1
  /\ covered_cells_vid' = <<grid_to_vector(loc)>>
  /\ covered_cells_gid' = <<loc>>
  /\ covered_segments' = covered_segments
  /\ action_mask' = _update_action_mask(loc, <<grid_to_vector(loc)>>)

\* reset, lines 127-132, with the agent at loc
ResetEpisode(loc) ==
  /\ stations_placed' = 1
  /\ covered_cells_vid' = <<grid_to_vector(loc)>>
  /\ covered_cells_gid' = <<loc>>
  /\ covered_segments' = << >>
  /\ action_mask' = _update_action_mask(loc, <<grid_to_vector(loc)>>)

\* the cells of the grid
GridCells == (0..(city.grid_x_size - 1)) \X (0..(city.grid_y_size - 1))

\* reset(loc=(x, y)) with a coordinate pair, or reset() with a random draw
ResetAt(given, loc) ==
  /\ _update_agent_location(loc)
  /\ ResetEpisode(loc)
  /\ op' = "reset"
  /\ exc' = "none"
  /\ action' = -1
  /\ loc_arg' = given
  /\ sat_od_mask' = << >>
  /\ reward' = << >>
  /\ terminated' = FALSE
  /\ truncated' = FALSE
  /\ DriverReset
  /\ UNCHANGED cityVars

\* reset(loc=(x, y)): the start location is given as a pair
ResetGiven == \E loc \in GridCells : ResetAt(LocTuple(loc), loc)

\* the arrays reset is given: the far corner of the grid (the outcome does not
\* depend on the array's two values)
ArrayLocs == {<<city.grid_x_size - 1, city.grid_y_size - 1>>}

\* reset(loc=np.array([x, y])): `if loc:` at line 117 asks a two-element array
\* for its truth value, which numpy refuses with ValueError; nothing is assigned
ResetArray ==
  \E loc \in ArrayLocs :
    /\ NoReturn("reset", "ValueError")
    /\ action' = -1
    /\ loc_arg' = LocArray(loc)
    /\ UNCHANGED <<cityVars, episodeVars, driverVars>>

\* reset(): agent_x, agent_y are drawn by np_random.integers
ResetRandom ==
  \E agent_x \in 0..(city.grid_x_size - 1), agent_y \in 0..(city.grid_y_size - 1) :
    ResetAt(NoLoc, <<agent_x, agent_y>>)

\* ---------------------------------------------------------------- step
\* a variant that counts a station only for an action the mask allows
PlaceStation_legal_only(a) ==
  stations_placed' = IF action_mask[a + 1] = 1 THEN stations_placed + 1
                     ELSE stations_placed

\* line 147, on step(a)
PlaceStation(a) == stations_placed' = stations_placed + 1

\* a variant that records the segment in one direction only
AppendSegment_one_way(segments, from_idx, to_idx) ==
  Append(segments, <<from_idx, to_idx>>)

\* lines 154-155
AppendSegment(segments, from_idx, to_idx) ==
  Append(Append(segments, <<from_idx, to_idx>>), <<to_idx, from_idx>>)

\* a variant without the assertion (as when assertions are compiled away)
GroupDemandMissing_never(group_od_mx) == FALSE

\* line 70: `assert self.city.group_od_mx` fails on a missing or empty list
GroupDemandMissing(group_od_mx) == group_od_mx = << >>

Step(a, mask) ==
  /\ stations_placed < MaxPlaced
  /\ action' = a
  /\ loc_arg' = NoLoc
  /\ UNCHANGED cityVars
  /\ IF _agent_location = Unset
     THEN \* line 144: the instance has no _agent_location before the first reset
          /\ NoReturn("step", "AttributeError")
          /\ UNCHANGED <<episodeVars, driverVars>>
     ELSE
       LET direction == _action_to_direction[a + 1]
           new_location == <<_agent_location[1] + direction[1],
                             _agent_location[2] + direction[2]>>
           from_idx == grid_to_vector(_agent_location)
           to_idx == grid_to_vector(new_location)
           segment == <<from_idx, to_idx>>
       IN
       /\ PlaceStation(a)
       /\ legal' = (legal /\ action_mask[a + 1] = 1)
       /\ IF GroupDemandMissing(city.group_od_mx)
          THEN \* line 70: the assertion of _calculate_reward fails
               /\ NoReturn("step", "AssertionError")
               /\ UNCHANGED <<covered_cells_vid, covered_cells_gid, covered_segments,
                              action_mask, _agent_location, _agent_location_vid,
                              _agent_location_vector>>
               /\ UNCHANGED <<episode_return, credited, overlap>>
          ELSE
            LET asked == segment \notin Range(covered_segments)
                rw == _calculate_reward(segment, covered_segments,
                                        city.group_od_mx, mask, TRUE)
            IN
            /\ covered_segments' = AppendSegment(covered_segments, from_idx, to_idx)
            /\ covered_cells_vid' = Append(covered_cells_vid, to_idx)
            /\ covered_cells_gid' = Append(covered_cells_gid, new_location)
            /\ _update_agent_location(new_location)
            /\ IF LocationRaises(new_location)
               THEN \* line 102 raised: the mask is not recomputed
                    /\ NoReturn("step", "IndexError")
                    /\ UNCHANGED action_mask
                    /\ UNCHANGED <<episode_return, credited, overlap>>
               ELSE
                    /\ action_mask' =
                         _update_action_mask(new_location, covered_cells_vid')
                    /\ op' = "step"
                    /\ exc' = "none"
                    /\ sat_od_mask' = IF asked THEN mask ELSE << >>
                    /\ reward' = rw
                    /\ terminated' =
                         Terminated(stations_placed', nr_stations, action_mask')
                    /\ truncated' = FALSE
                    /\ DriverCollect(rw, asked, mask)

StepAny == \E a \in Actions, mask \in OdMasks : Step(a, mask)

Next ==
  \/ ResetGiven
  \/ ResetRandom
  \/ ResetArray
  \/ StepAny

Spec == Init /\ [][Next]_vars

\* ----------------------------------------------------------- properties
\* the last call was a step that returned
StepReturned == op = "step" /\ exc = "none"

\* the last call was a reset that returned
ResetReturned == op = "reset" /\ exc = "none"

MaskAllZero == \A d \in 1..8 : action_mask[d] = 0

\* the cell the agent would reach from its location in direction d (1..8)
Candidate(d) ==
  <<_agent_location[1] + _action_to_direction[d][1],
    _agent_location[2] + _action_to_direction[d][2]>>

InGrid(p) ==
  /\ p[1] >= 0 /\ p[2] >= 0
  /\ p[1] < city.grid_x_size /\ p[2] < city.grid_y_size

\* C1: every step that returns reports terminated = true exactly when, after
\* its updates, stations_placed >= nr_stations or all 8 entries of the
\* recomputed action mask are 0, and reports truncated = false.
C1_TerminatedFlag ==
  StepReturned =>
    /\ terminated <=> (stations_placed >= nr_stations \/ MaskAllZero)
    /\ truncated = FALSE

\* a step returned terminated = true for a stranded agent with budget left
C1_Witness ==
  /\ StepReturned
  /\ terminated
  /\ MaskAllZero
  /\ stations_placed < nr_stations

\* C2: after every reset and every step that returns, action_mask[d] is 1
\* exactly when the candidate cell in direction d has both coordinates >= 0,
\* row < grid rows, column < grid columns and an index that is not in
\* covered_cells_vid, which by then holds the cell just arrived at; else 0.
C2_MaskRule ==
  (StepReturned \/ ResetReturned) =>
    /\ covered_cells_vid[Len(covered_cells_vid)] = grid_to_vector(_agent_location)
    /\ \A d \in 1..8 :
         /\ action_mask[d] \in {0, 1}
         /\ action_mask[d] = 1 <=>
              /\ InGrid(Candidate(d))
              /\ \A k \in DOMAIN covered_cells_vid :
                   covered_cells_vid[k] # grid_to_vector(Candidate(d))

\* after a step the mask allows one move, forbids one that leaves the grid and
\* forbids one onto a visited cell of the grid
C2_Witness ==
  /\ StepReturned
  /\ \E d \in 1..8 : action_mask[d] = 1
  /\ \E d \in 1..8 : action_mask[d] = 0 /\ ~InGrid(Candidate(d))
  /\ \E d \in 1..8 : action_mask[d] = 0 /\ InGrid(Candidate(d))

\* C3 as stated: a step returns terminated = true exactly when stations_placed
\* equals nr_stations or the recomputed mask is all-zero.
C3_Original ==
  StepReturned =>
    (terminated <=> (stations_placed = nr_stations \/ MaskAllZero))

\* C3 as amended: a step returns terminated = true exactly when afterwards
\* stations_placed >= nr_stations or the mask is all-zero; a terminating step
\* that began below the budget ends with stations_placed = nr_stations or an
\* all-zero mask, and a step that began at or above the budget (nr_stations
\* <= 1, or a step after termination) terminates with stations_placed above
\* nr_stations.
C3_Termination ==
  [][ (op' = "step" /\ exc' = "none") =>
        /\ terminated' <=> (stations_placed' >= nr_stations \/ MaskAllZero')
        /\ (terminated' /\ stations_placed < nr_stations) =>
              (stations_placed' = nr_stations \/ MaskAllZero')
        /\ stations_placed >= nr_stations =>
              (terminated' /\ stations_placed' > nr_stations) ]_vars

\* a step returned terminated = true above the budget with a move still open
C3_Witness ==
  /\ StepReturned
  /\ terminated
  /\ stations_placed > nr_stations
  /\ ~MaskAllZero

\* C4: stations_placed is 1 right after every reset and grows by exactly 1 on
\* every step call of an episode, whatever the action, whether or not the
\* episode has terminated and whether or not the call returns.
C4_StationsPlaced ==
  [][ /\ (op' = "reset" /\ exc' = "none") => stations_placed' = 1
      /\ (op' = "step" /\ exc' # "AttributeError") =>
            stations_placed' = stations_placed + 1 ]_vars

\* a step was taken after the budget was used up, with an action the mask
\* did not allow (the agent has left the grid)
C4_Witness ==
  /\ StepReturned
  /\ stations_placed > nr_stations + 1
  /\ ~InGrid(_agent_location)

\* every directed pair of covered_segments is there in both directions
ClosedUnderReversal ==
  \A k \in DOMAIN covered_segments :
    <<covered_segments[k][2], covered_segments[k][1]>> \in Range(covered_segments)

\* C5: every step call that gets past the reward rule appends exactly two
\* entries to covered_segments, [from_index, to_index] and then [to_index,
\* from_index], and changes no earlier entry; the list is closed under
\* reversal of pairs.
C5_SegmentsAppended ==
  [][ (op' = "step" /\ exc' \notin {"AttributeError", "AssertionError"}) =>
        LET from_idx == grid_to_vector(_agent_location)
            to_idx == grid_to_vector(
                        <<_agent_location[1] + _action_to_direction[action' + 1][1],
                          _agent_location[2] + _action_to_direction[action' + 1][2]>>)
        IN /\ covered_segments' =
                covered_segments \o << <<from_idx, to_idx>>, <<to_idx, from_idx>> >>
           /\ Len(covered_segments') = Len(covered_segments) + 2
           /\ ClosedUnderReversal' ]_vars

\* two steps have appended four entries
C5_Witness ==
  /\ StepReturned
  /\ Len(covered_segments) = 4
  /\ covered_segments[3] # covered_segments[1]

\* the directed segment of the last step, and whether covered_segments held
\* it before that step appended it
LastSegment == covered_segments[Len(covered_segments) - 1]

SegmentWasCovered ==
  LastSegment \in Range(SubSeq(covered_segments, 1, Len(covered_segments) - 2))

\* r1 <= r2 for fractions with positive denominators
FracLeq(r1, r2) == r1.num * r2.den <= r2.num * r1.den

One == Frac(1, 1)

\* C6: a step whose directed segment [from_index, to_index] was already in
\* covered_segments returns the zero vector with one entry per group,
\* whatever the demand matrices; the city is not asked for a mask.
C6_NoDoubleCredit ==
  (StepReturned /\ SegmentWasCovered) =>
    /\ Len(reward) = Len(city.group_od_mx)
    /\ \A i \in 1..Len(reward) : reward[i].num = 0 /\ reward[i].den > 0
    /\ sat_od_mask = << >>

\* the agent stepped straight back over the link it had just built, in a city
\* with two groups
C6_Witness ==
  /\ StepReturned
  /\ Len(covered_segments) = 4
  /\ covered_segments[3] = covered_segments[2]
  /\ Len(reward) = 2

\* C7: for a step whose directed segment was not in covered_segments before
\* the step appended it, the reward of group i is
\* sum(group_od_mx[i] * mask) / sum(group_od_mx[i]) for the mask the city
\* returned for the segment.
C7_RewardFraction ==
  (StepReturned /\ ~SegmentWasCovered) =>
    /\ Len(reward) = Len(city.group_od_mx)
    /\ sat_od_mask \in OdMasks
    /\ \A i \in 1..Len(reward) :
         /\ reward[i].den > 0
         /\ reward[i].num * SumSeq(city.group_od_mx[i]) =
              MaskedSum(city.group_od_mx[i], sat_od_mask) * reward[i].den

\* the first segment, from (0,0) to (0,1), satisfies 4 of 10 units: reward 0.4
C7_Witness ==
  /\ StepReturned
  /\ covered_cells_gid = << <<0, 0>>, <<0, 1>> >>
  /\ SumSeq(city.group_od_mx[1]) = 10
  /\ MaskedSum(city.group_od_mx[1], sat_od_mask) = 4
  /\ 10 * reward[1].num = 4 * reward[1].den

\* C8: every component of every reward vector a step returns lies in [0, 1].
C8_RewardInUnitInterval ==
  StepReturned =>
    \A i \in 1..Len(reward) :
      /\ reward[i].den > 0
      /\ FracLeq(Zero, reward[i])
      /\ FracLeq(reward[i], One)

\* a reward vector with a component equal to 1 and one strictly inside (0, 1)
C8_Witness ==
  /\ StepReturned
  /\ Len(reward) = 2
  /\ reward[2].num = reward[2].den
  /\ 0 < reward[1].num /\ reward[1].num < reward[1].den

\* C9 as stated: for every group the sum of the rewards of one episode never
\* exceeds 1, whatever masks the city returns; stated here for the episodes
\* that ask least of it, those played with actions the mask allowed and not
\* continued beyond the station budget.
C9_Original ==
  (legal /\ stations_placed <= nr_stations) =>
    \A i \in 1..Len(episode_return) : FracLeq(episode_return[i], One)

\* C9 as amended: for every group the exact sum of the rewards of one episode
\* never exceeds 1 as long as no OD pair is marked satisfied by the masks of
\* two credited segments of the episode.
C9_DisjointReturn ==
  ~overlap =>
    \A i \in 1..Len(episode_return) :
      /\ episode_return[i].den > 0
      /\ FracLeq(episode_return[i], One)

\* two credited segments with disjoint masks have brought a group's sum to 1
C9_Witness ==
  /\ StepReturned
  /\ ~overlap
  /\ Len(covered_segments) >= 4
  /\ credited = DOMAIN city.group_od_mx[1]
  /\ episode_return[1].num = episode_return[1].den
  /\ reward[1].num > 0

\* C10: reset overwrites the episode state whatever state it is called in:
\* afterwards stations_placed = 1, both views of covered_cells hold the start
\* cell alone, covered_segments is empty, the three representations of the
\* location are those of the start cell and the mask allows exactly the
\* neighbours of the start cell that lie in the grid, as on a fresh instance.
C10_ResetOverwrites ==
  ResetReturned =>
    /\ InGrid(_agent_location)
    /\ stations_placed = 1
    /\ covered_cells_vid = <<grid_to_vector(_agent_location)>>
    /\ covered_cells_gid = <<_agent_location>>
    /\ covered_segments = << >>
    /\ _agent_location_vid = grid_to_vector(_agent_location)
    /\ _agent_location_vector =
         [k \in 1..grid_size |-> IF k = _agent_location_vid + 1 THEN 1 ELSE 0]
    /\ \A d \in 1..8 :
         action_mask[d] = IF InGrid(Candidate(d)) THEN 1 ELSE 0

\* reset has returned at a cell of the grid other than the origin
C10_Witness ==
  /\ ResetReturned
  /\ _agent_location # <<0, 0>>
  /\ \E d \in 1..8 : action_mask[d] = 1

\* C11: a reset that is given its start location, as a coordinate pair or as
\* an array, completes normally with the agent at that coordinate.
C11_Original ==
  (op = "reset" /\ loc_arg.kind \in {"tuple", "array"}) =>
    /\ exc = "none"
    /\ _agent_location = loc_arg.at

\* C12: right after a reset that returns (start given as a pair or drawn at
\* random, always a cell of the grid) the action mask has an entry equal to 1
\* unless the grid is a single cell, and then it is all-zero.
C12_MaskAfterReset ==
  ResetReturned => (MaskAllZero <=> grid_size = 1)

\* reset at the end of a corridor: exactly one move is open
C12_Witness ==
  /\ ResetReturned
  /\ grid_size > 1
  /\ Cardinality({d \in 1..8 : action_mask[d] = 1}) = 1

\* C13: at every point after the first reset the three representations of
\* the location agree: _agent_location_vid is the linear index of
\* _agent_location, and _agent_location_vector has length grid_size and
\* exactly one entry set, the one at position _agent_location_vid.
C13_Original ==
  _agent_location # Unset =>
    /\ _agent_location_vid = grid_to_vector(_agent_location)
    /\ Len(_agent_location_vector) = grid_size
    /\ SumSeq(_agent_location_vector) = 1
    /\ _agent_location_vector =
         [k \in 1..grid_size |-> IF k = _agent_location_vid + 1 THEN 1 ELSE 0]

\* C14: in an episode started at a cell of the grid and played with actions
\* the current mask allows, the entries of covered_cells_vid (and of
\* covered_cells_gid) are pairwise distinct.
C14_NoDuplicateCells ==
  legal =>
    /\ \A j, k \in DOMAIN covered_cells_vid :
         covered_cells_vid[j] = covered_cells_vid[k] => j = k
    /\ \A j, k \in DOMAIN covered_cells_gid :
         covered_cells_gid[j] = covered_cells_gid[k] => j = k

\* two allowed moves have been made: three cells are covered
C14_Witness ==
  /\ legal
  /\ StepReturned
  /\ Len(covered_cells_vid) = 3

\* C15: step rejects no action: in an episode of a city with group demand,
\* every step call, also one whose action the mask forbids, returns normally,
\* with the agent at the cell it moved to, that cell appended last to both
\* views of covered_cells and the mask recomputed there.
C15_Original ==
  (op = "step" /\ _agent_location # Unset /\ city.group_od_mx # << >>) =>
    /\ exc = "none"
    /\ covered_cells_gid[Len(covered_cells_gid)] = _agent_location
    /\ covered_cells_vid[Len(covered_cells_vid)] = _agent_location_vid
    /\ action_mask = _update_action_mask(_agent_location, covered_cells_vid)

\* C16: in a city whose per-group OD matrices are missing or empty every step
\* fails, in an episode with the assertion of the reward rule, which is
\* raised before the covered-segment lookup, the mask query and the
\* normalisation (nothing is returned, credited or appended); reset, called
\* without a location or with a pair, does not fail.
C16_MissingGroupDemand ==
  city.group_od_mx = << >> =>
    /\ op = "step" => exc # "none"
    /\ (op = "step" /\ _agent_location # Unset) =>
          (exc = "AssertionError" /\ reward = << >> /\ sat_od_mask = << >>)
    /\ covered_segments = << >>
    /\ Len(covered_cells_vid) <= 1
    /\ credited = {}
    /\ (op = "reset" /\ loc_arg.kind # "array") => exc = "none"

\* a step of an episode has failed with the assertion
C16_Witness ==
  /\ city.group_od_mx = << >>
  /\ op = "step"
  /\ exc = "AssertionError"
  /\ stations_placed >= 2

Min(a, b) == IF a <= b THEN a ELSE b
Max(a, b) == IF a >= b THEN a ELSE b

\* the number of steps within which an episode is claimed to terminate
StepBound == Min(Max(nr_stations - 1, 1), grid_size - 1)

\* C17: on a grid of at least 2 cells, in a city with group demand, an episode
\* played with actions the mask allows terminates within
\* min(max(nr_stations - 1, 1), grid_size - 1) steps: every such step
\* returns, the step that reaches the bound returns terminated = true, and as
\* long as terminated = false is returned the mask still allows a move.
C17_LegalEpisodeTerminates ==
  (legal /\ op = "step" /\ _agent_location # Unset
         /\ city.group_od_mx # << >> /\ grid_size >= 2) =>
    /\ exc = "none"
    /\ stations_placed - 1 >= StepBound => terminated
    /\ ~terminated => \E d \in 1..8 : action_mask[d] = 1

\* the second allowed step of an episode is the one that terminates it
C17_Witness ==
  /\ legal
  /\ StepReturned
  /\ grid_size >= 2
  /\ terminated
  /\ StepBound = 2
  /\ stations_placed - 1 = StepBound

\* C18: in an episode started at a cell of the grid and played with actions
\* the mask allows, the agent and every covered cell lie inside the grid, and
\* the segment a step hands to the reward rule is never in covered_segments
\* already: the city is asked for its mask at every step and the zero-reward
\* branch is not taken.
C18_LegalStaysInGrid ==
  (legal /\ _agent_location # Unset) =>
    /\ InGrid(_agent_location)
    /\ \A k \in DOMAIN covered_cells_gid : InGrid(covered_cells_gid[k])
    /\ StepReturned => (~SegmentWasCovered /\ sat_od_mask \in OdMasks)

\* two allowed steps, each credited with what its own mask satisfies
C18_Witness ==
  /\ legal
  /\ StepReturned
  /\ Len(covered_segments) = 4
  /\ reward[1].num > 0

\* C19: after every reset and every step that returns, whatever the actions,
\* both views of covered_cells have stations_placed entries that name the
\* same cells, the last of them the agent's location, and covered_segments
\* has 2 * (stations_placed - 1) entries: for the k-th move the pair
\* [cell k, cell k+1] followed by [cell k+1, cell k].
C19_HistoriesConsistent ==
  (StepReturned \/ ResetReturned) =>
    /\ Len(covered_cells_vid) = stations_placed
    /\ Len(covered_cells_gid) = stations_placed
    /\ \A k \in 1..stations_placed :
         covered_cells_vid[k] = grid_to_vector(covered_cells_gid[k])
    /\ covered_cells_gid[stations_placed] = _agent_location
    /\ Len(covered_segments) = 2 * (stations_placed - 1)
    /\ \A k \in 1..(stations_placed - 1) :
         /\ covered_segments[2 * k - 1] =
              <<covered_cells_vid[k], covered_cells_vid[k + 1]>>
         /\ covered_segments[2 * k] =
              <<covered_cells_vid[k + 1], covered_cells_vid[k]>>

\* two steps have returned, one of them with an action its mask forbade
C19_Witness ==
  /\ StepReturned
  /\ ~legal
  /\ stations_placed = 3
  /\ Len(covered_segments) = 4

\* C20 as stated: a step that fails with the assertion on the missing group
\* demand leaves all episode state as it was: stations_placed, both views of
\* covered_cells, covered_segments, the three representations of the
\* location and the action mask.
C20_Original ==
  [][ (op' = "step" /\ exc' = "AssertionError") =>
        UNCHANGED episodeVars ]_vars

\* C20 as amended: a step that fails with the assertion on the missing group
\* demand has incremented stations_placed by 1 and leaves the rest of the
\* episode state as it was: both views of covered_cells, covered_segments,
\* the three representations of the location and the action mask.
C20_FailedStepFrame ==
  [][ (op' = "step" /\ exc' = "AssertionError") =>
        /\ stations_placed' = stations_placed + 1
        /\ UNCHANGED <<covered_cells_vid, covered_cells_gid, covered_segments,
                       action_mask, _agent_location, _agent_location_vid,
                       _agent_location_vector>> ]_vars

\* two steps have failed with the assertion: the count has moved, the cells
\* have not
C20_Witness ==
  /\ op = "step"
  /\ exc = "AssertionError"
  /\ stations_placed = 3
  /\ covered_cells_gid = <<_agent_location>>

====
